---- MODULE Spec2Model ----
(***************************************************************************)
(* A model of imapbackup38.py: the LIST parser, the name mapper, the       *)
(* folder and archive scans, the reconciliation in main, the mbox writer   *)
(* and the relay sink.                                                     *)
(*                                                                         *)
(* Text is a sequence of tokens.  A token is one byte, except for the few  *)
(* literals the code matches as a unit:                                    *)
(*   "F"  the five bytes `From ' (the mbox separator token)                *)
(*   "M"  the header name Message-Id, in any letter case                   *)
(*   "H"  any other header name (From, To, Cc, Date, Subject)              *)
(*   "U"  the UUID constant used to mark synthesised identifiers           *)
(*   "nobody", "ctime"  the rest of the envelope line                      *)
(*   "None" the text Python prints for the value None                      *)
(* and a digest, which is one token computed from the digested bytes.      *)
(***************************************************************************)
EXTENDS Integers, Sequences, FiniteSets, TLC

\* ------------------------------------------------------------------ text

CR == "\r"
LF == "\n"
TAB == "\t"
SP == " "

\* Python's notion of white space for str.strip, bytes.strip and \s
IsSpace(c) == c \in {SP, TAB, CR, LF}

RECURSIVE LStrip(_)
LStrip(s) == IF s # <<>> /\ IsSpace(Head(s)) THEN LStrip(Tail(s)) ELSE s

RECURSIVE RStrip(_)
RStrip(s) ==
  IF s # <<>> /\ IsSpace(s[Len(s)]) THEN RStrip(SubSeq(s, 1, Len(s) - 1)) ELSE s

\* str.strip() / bytes.strip()
Strip(s) == RStrip(LStrip(s))

\* BLANKS_RE.sub(' ', s): every maximal run of white space becomes one space
RECURSIVE BlanksSub(_)
BlanksSub(s) ==
  IF s = <<>> THEN <<>>
  ELSE IF IsSpace(Head(s)) THEN <<SP>> \o BlanksSub(LStrip(s))
  ELSE <<Head(s)>> \o BlanksSub(Tail(s))

\* the longest prefix of s without a line feed: what (.+) can match
RECURSIVE UpToLF(_)
UpToLF(s) ==
  IF s = <<>> \/ Head(s) = LF THEN <<>> ELSE <<Head(s)>> \o UpToLF(Tail(s))

NoMatch == <<"nomatch">>

\* MSGID_RE.match(header).group(1); NoMatch stands for the AttributeError
\* that .group raises on None
MsgIdMatch(header) ==
  IF Len(header) >= 4 /\ header[1] = "M" /\ header[2] = ":" /\ header[3] = SP
     /\ header[4] # LF
  THEN UpToLF(SubSeq(header, 4, Len(header)))
  ELSE NoMatch

\* s.replace(a, b) for a one-token a
RECURSIVE Replace1(_, _, _)
Replace1(s, a, b) ==
  IF s = <<>> THEN <<>>
  ELSE (IF Head(s) = a THEN b ELSE <<Head(s)>>) \o Replace1(Tail(s), a, b)

\* s.replace(a, b) for a two-token a
RECURSIVE Replace2(_, _, _)
Replace2(s, a, b) ==
  IF Len(s) < 2 THEN s
  ELSE IF s[1] = a[1] /\ s[2] = a[2] THEN b \o Replace2(Tail(Tail(s)), a, b)
  ELSE <<Head(s)>> \o Replace2(Tail(s), a, b)

\* hashlib.sha1(header).hexdigest(): one token, a collision-free image of
\* the digested bytes
Sha1Hex(bytes) == ToString(bytes)

\* the identifier synthesised from the FROM TO CC DATE SUBJECT block
SynthId(data) ==
  <<"<", "U", ".", Sha1Hex(Replace2(Strip(data), <<CR, LF>>, <<TAB>>)), ">">>

\* UUID in msg_id
HasUUID(msg_id) == \E i \in 1..Len(msg_id) : msg_id[i] = "U"

\* ------------------------------------------------------- ordered dict

\* A Python dict keeps insertion order: a sequence of [id, num] entries
\* with pairwise different ids.
Keys(d) == {d[i].id : i \in 1..Len(d)}

\* d[k]
DictGet(d, k) == d[CHOOSE i \in 1..Len(d) : d[i].id = k].num

\* d[k] = v: a new key is appended, an old key keeps its place and takes v
DictAssign(d, k, v) ==
  IF k \in Keys(d)
  THEN [i \in 1..Len(d) |-> IF d[i].id = k THEN [id |-> k, num |-> v] ELSE d[i]]
  ELSE Append(d, [id |-> k, num |-> v])

\* if k not in d.keys(): d[k] = v
DictSetDefault(d, k, v) == IF k \in Keys(d) THEN d ELSE DictAssign(d, k, v)

\* ------------------------------------------------------ lines, headers

\* s.split("\n")
RECURSIVE SplitLF(_)
SplitLF(s) ==
  IF \A i \in 1..Len(s) : s[i] # LF THEN <<s>>
  ELSE LET k == CHOOSE i \in 1..Len(s) :
                  s[i] = LF /\ \A j \in 1..(i - 1) : s[j] # LF
       IN <<SubSeq(s, 1, k - 1)>> \o SplitLF(SubSeq(s, k + 1, Len(s)))

IsHeaderLine(l) == Len(l) >= 2 /\ l[1] \in {"M", "H"} /\ l[2] = ":"

IsContinuation(l) == l # <<>> /\ l[1] \in {SP, TAB}

\* The header section of a message as a sequence of fields, each field the
\* sequence of its physical lines (the first line and its continuation
\* lines); the section ends at the first line that is neither.
RECURSIVE Fields(_, _)
Fields(lines, acc) ==
  IF lines = <<>> THEN acc
  ELSE LET l == Head(lines) IN
    IF IsHeaderLine(l) THEN Fields(Tail(lines), Append(acc, <<l>>))
    ELSE IF IsContinuation(l) /\ acc # <<>>
      THEN Fields(Tail(lines),
                  [acc EXCEPT ![Len(acc)] = Append(acc[Len(acc)], l)])
    ELSE acc

RECURSIVE JoinWith(_, _)
JoinWith(lines, sep) ==
  IF lines = <<>> THEN <<>>
  ELSE IF Len(lines) = 1 THEN lines[1]
  ELSE lines[1] \o sep \o JoinWith(Tail(lines), sep)

RECURSIVE SelectFields(_, _)
SelectFields(fields, name) ==
  IF fields = <<>> THEN <<>>
  ELSE (IF Head(fields)[1][1] = name THEN <<Head(fields)>> ELSE <<>>)
       \o SelectFields(Tail(fields), name)

RECURSIVE FlattenCRLF(_)
FlattenCRLF(fields) ==
  IF fields = <<>> THEN <<>>
  ELSE JoinWith(Head(fields), <<CR, LF>>) \o <<CR, LF>> \o FlattenCRLF(Tail(fields))

\* What the server returns for BODY[HEADER.FIELDS (name)] of a message with
\* the given text: the fields of that name, then an empty line.
HeaderFieldsOf(text, name) ==
  FlattenCRLF(SelectFields(Fields(SplitLF(Replace1(text, CR, <<>>)), <<>>), name))
    \o <<CR, LF>>

\* ---------------------------------------------------------- LIST rows

\* A row is a sequence of tokens: "(", ")", the quote, the backslash, white
\* space, and atoms ("n" an attribute letter, "/" and "." delimiters,
\* "INBOX", "Inbox", "a", "b" name parts).
QUOTE == "\""
BSLASH == "\\"

\* [a-zA-Z0-9_]
IsWord(c) == c \in {"n", "a", "b", "INBOX", "Inbox"}

RECURSIVE WordRun(_)
WordRun(s) == IF s # <<>> /\ IsWord(Head(s)) THEN 1 + WordRun(Tail(s)) ELSE 0

Drop(s, n) == SubSeq(s, n + 1, Len(s))

Failed == [ok |-> FALSE]

\* name_attrib_re.search(row): ^\s*(\\[a-zA-Z0-9_]+)\s* ; the match end, or
\* 0 for no match
NameAttribEnd(row) ==
  LET lead == Len(row) - Len(LStrip(row))
      r1 == Drop(row, lead)
  IN IF r1 # <<>> /\ Head(r1) = BSLASH /\ WordRun(Tail(r1)) > 0
     THEN LET w == 1 + WordRun(Tail(r1))
              r2 == Drop(r1, w)
          IN lead + w + (Len(r2) - Len(LStrip(r2)))
     ELSE 0

\* The loop of parse_paren_list after the opening parenthesis was eaten.
\* An empty row makes row[0] raise IndexError, a failed assertion raises
\* AssertionError: both are Failed.
RECURSIVE ParenItems(_, _)
ParenItems(row, result) ==
  IF row = <<>> THEN Failed
  ELSE IF Head(row) = ")" THEN [ok |-> TRUE, list |-> result, rest |-> Tail(row)]
  ELSE IF Head(row) = "("
    THEN LET sub == ParenItems(Tail(row), <<>>)
         IN IF sub.ok THEN ParenItems(sub.rest, Append(result, sub.list))
            ELSE Failed
  ELSE LET e == NameAttribEnd(row)
       IN IF e = 0 THEN Failed
          ELSE ParenItems(Drop(row, e), Append(result, Strip(SubSeq(row, 1, e))))

parse_paren_list(row) ==
  IF row = <<>> \/ Head(row) # "(" THEN Failed ELSE ParenItems(Tail(row), <<>>)

\* the length of the longest prefix of s without the token c
RECURSIVE RunNot(_, _)
RunNot(s, c) == IF s # <<>> /\ Head(s) # c THEN 1 + RunNot(Tail(s), c) ELSE 0

RECURSIVE RunNotSpace(_)
RunNotSpace(s) ==
  IF s # <<>> /\ ~IsSpace(Head(s)) THEN 1 + RunNotSpace(Tail(s)) ELSE 0

\* re.compile('\s*(?:"([^"]+)")\s*|\s*(\S+)\s*').split(row), without the
\* empty pieces: at each place the quoted alternative is tried first
RECURSIVE parse_string_list(_)
parse_string_list(row) ==
  LET r == LStrip(row) IN
  IF r = <<>> THEN (IF row = <<>> THEN <<>> ELSE <<row>>)
  ELSE LET q == RunNot(Tail(r), QUOTE) IN
    IF Head(r) = QUOTE /\ q > 0 /\ q < Len(r) - 1
    THEN <<SubSeq(r, 2, q + 1)>> \o parse_string_list(LStrip(Drop(r, q + 2)))
    ELSE LET w == RunNotSpace(r)
         IN <<SubSeq(r, 1, w)>> \o parse_string_list(LStrip(Drop(r, w)))

\* parse_list: [attribs, hierarchy delimiter, name], or Failed for the
\* AssertionError / IndexError it raises
parse_list(row0) ==
  LET p == parse_paren_list(Strip(row0)) IN
  IF ~p.ok THEN Failed
  ELSE LET sl == parse_string_list(p.rest)
       IN IF Len(sl) # 2 THEN Failed
          ELSE [ok |-> TRUE, attrs |-> p.list, delim |-> sl[1], name |-> sl[2]]

\* -------------------------------------------------------- name mapping

\* the first place where d occurs in s, or 0
FindSeq(s, d) ==
  LET hits == {i \in 1..(Len(s) - Len(d) + 1) : SubSeq(s, i, i + Len(d) - 1) = d}
  IN IF hits = {} THEN 0 ELSE CHOOSE i \in hits : \A j \in hits : i <= j

\* s.split(d)
RECURSIVE Split(_, _)
Split(s, d) ==
  LET k == FindSeq(s, d) IN
  IF k = 0 THEN <<s>>
  ELSE <<SubSeq(s, 1, k - 1)>> \o Split(Drop(s, k + Len(d) - 1), d)

\* the file name get_names gives a folder (lines 492-497)
FileNameOf(foldername, delim, thunderbird) ==
  IF thunderbird
  THEN LET filename == JoinWith(Split(foldername, delim), <<".sbd/">>)
       IN IF filename # <<>> /\ Head(filename) = "INBOX"
          THEN Replace1(filename, "INBOX", <<"Inbox">>)
          ELSE filename
  ELSE JoinWith(Split(foldername, delim), <<".">>) \o <<".mbox">>

\* the loop of get_names over the rows of the LIST response: the work plan,
\* or Failed when parse_list raises on a row (nothing catches it)
RECURSIVE NamesOfRows(_, _, _)
NamesOfRows(data, thunderbird, acc) ==
  IF data = <<>> THEN [ok |-> TRUE, names |-> acc]
  ELSE LET lst == parse_list(Head(data)) IN
    IF ~lst.ok THEN Failed
    ELSE NamesOfRows(Tail(data), thunderbird,
           Append(acc, [folder |-> lst.name,
                        file |-> FileNameOf(lst.name, lst.delim, thunderbird)]))

get_names(data, thunderbird) == NamesOfRows(data, thunderbird, <<>>)

\* ------------------------------------------------------------ archive

\* "From nobody %s\n" % time.ctime()
EnvelopeLine == <<"F", "nobody", SP, "ctime", LF>>

RECURSIVE RunOf(_, _)
RunOf(s, c) == IF s # <<>> /\ Head(s) = c THEN 1 + RunOf(Tail(s), c) ELSE 0

\* from_re.sub(b"\n>\\1From ", text) with from_re = "\n(>*)From "
RECURSIVE FromQuote(_)
FromQuote(s) ==
  IF s = <<>> THEN <<>>
  ELSE IF Head(s) = LF
    THEN LET g == RunOf(Tail(s), ">")
             after == Drop(Tail(s), g)
         IN IF after # <<>> /\ Head(after) = "F"
            THEN <<LF, ">">> \o SubSeq(Tail(s), 1, g) \o <<"F">>
                   \o FromQuote(Tail(after))
            ELSE <<LF>> \o FromQuote(Tail(s))
  ELSE <<Head(s)>> \o FromQuote(Tail(s))

\* lines 190-199: the message text as it is archived
ArchivedText(data_bytes, thunderbird) ==
  LET text_bytes == Replace1(Strip(data_bytes), CR, <<>>) IN
  IF thunderbird THEN Replace2(text_bytes, <<LF, "F">>, <<LF, SP, "F">>)
  ELSE FromQuote(text_bytes)

\* a block head without the identifier line
BlockHeadPlain(msg_id) == EnvelopeLine


\* lines 172-180: what is written before the message is fetched
BlockHead(msg_id) ==
  EnvelopeLine \o (IF HasUUID(msg_id) THEN <<"M", ":", SP>> \o msg_id \o <<LF>>
                   ELSE <<>>)

\* mailbox.mbox: every line that starts with `From ' opens a message, which
\* runs to the next such line; the result is the lines of each message
\* without its `From ' line
RECURSIVE MboxSplit(_, _, _)
MboxSplit(lines, acc, open) ==
  IF lines = <<>> THEN acc
  ELSE LET l == Head(lines) IN
    IF l # <<>> /\ l[1] = "F" THEN MboxSplit(Tail(lines), Append(acc, <<>>), TRUE)
    ELSE IF open
      THEN MboxSplit(Tail(lines), [acc EXCEPT ![Len(acc)] = Append(@, l)], TRUE)
    ELSE MboxSplit(Tail(lines), acc, FALSE)

MboxMessages(bytes) == MboxSplit(SplitLF(bytes), <<>>, FALSE)

RECURSIVE LStripST(_)
LStripST(s) == IF s # <<>> /\ Head(s) \in {SP, TAB} THEN LStripST(Tail(s)) ELSE s

RECURSIVE RStripCRLF(_)
RStripCRLF(s) ==
  IF s # <<>> /\ s[Len(s)] \in {CR, LF} THEN RStripCRLF(SubSeq(s, 1, Len(s) - 1))
  ELSE s

\* message.get('Message-Id') of the email package: the value of the first
\* field of that name with its continuation lines, or None
MessageGet(lines, name) ==
  LET fs == SelectFields(Fields(lines, <<>>), name) IN
  IF fs = <<>> THEN <<"None">>
  ELSE LET f == fs[1]
           raw == JoinWith(<<Drop(f[1], 2)>> \o Tail(f), <<LF>>)
       IN RStripCRLF(LStripST(raw))

\* lines 321-342 for one archived message: the identifier it contributes,
\* or NoMatch when the regular expression does not match
FileMsgId(lines) ==
  LET header == <<"M", ":", SP>> \o MessageGet(lines, "M")
  IN MsgIdMatch(BlanksSub(Strip(header)))

RECURSIVE FileIds(_, _)
FileIds(msgs, messages) ==
  IF msgs = <<>> THEN messages
  ELSE LET msg_id == FileMsgId(Head(msgs)) IN
    FileIds(Tail(msgs),
            IF msg_id = NoMatch \/ \E i \in 1..Len(messages) : messages[i] = msg_id
            THEN messages ELSE Append(messages, msg_id))

\* scan_file: the identifiers of the archive, in the order met.  files is
\* the directory: a function from the names of the files that exist to
\* their bytes.
scan_file(files, filename, overwrite) ==
  IF overwrite THEN <<>>
  ELSE IF filename \notin DOMAIN files THEN <<>>
  ELSE FileIds(MboxMessages(files[filename]), <<>>)

\* a reconciliation that forgets the local index
ReconcileAll(fol_msgs, fil_msgs) == fol_msgs

\* lines 810-813 of main
RECURSIVE Reconcile(_, _)
Reconcile(fol_msgs, fil_msgs) ==
  IF fol_msgs = <<>> THEN <<>>
  ELSE (IF \E i \in 1..Len(fil_msgs) : fil_msgs[i] = Head(fol_msgs).id
        THEN <<>> ELSE <<Head(fol_msgs)>>)
       \o Reconcile(Tail(fol_msgs), fil_msgs)

\* ------------------------------------------------------------- server

Status == {"OK", "NO"}

\* SEARCH UNSEEN: the sequence numbers of the messages without \Seen
RECURSIVE UnseenFrom(_, _)
UnseenFrom(msgs, n) ==
  IF n > Len(msgs) THEN <<>>
  ELSE (IF msgs[n].seen THEN <<>> ELSE <<n>>) \o UnseenFrom(msgs, n + 1)

SearchUnseen(msgs) == UnseenFrom(msgs, 1)

\* lines 392-401: the Message-Id of the fetched header, or NoMatch
FolderMsgId(data) == MsgIdMatch(BlanksSub(Strip(data)))

\* lines 399-401: a genuine identifier is recorded unless already there
AddGenuine(messages, msg_id, num) == DictSetDefault(messages, msg_id, num)

\* lines 410-414: a synthesised identifier is assigned
AddSynthesised(messages, msg_data, num) ==
  DictAssign(messages, SynthId(msg_data), num)

\* ----------------------------------------------------------- the relay

\* line 281
ThrottleEvery == 30
\* line 283
PauseSeconds == 60

\* a flag command that ignores the outcome of the delivery
FlagAlwaysSeen(delivered) == "+FLAGS"

\* lines 257-274: the flag command that follows a delivery
FlagCommand(delivered) == IF delivered THEN "+FLAGS" ELSE "-FLAGS"

\* a counter of the delivered messages only
CountedIfDelivered(counter, delivered) ==
  IF delivered THEN counter + 1 ELSE counter

\* line 280: every message that gets this far is counted
Counted(counter, delivered) == counter + 1

\* lines 281-283
PauseDue(counter) == counter % ThrottleEvery = 0

\* a loop without the handler around the quit
EscapesOnQuit(delivered, stored, quit) == ~quit

\* lines 257, 266, 272 and 277: the handlers around the delivery, the store
\* and the quit catch whatever is raised; nothing reaches the loop
Escapes(delivered, stored, quit) == FALSE

\* the outcomes the relay can give the message processed as number k of a
\* batch, by the behaviour of the relay
DeliveryOutcomes(behaviour, k) ==
  CASE behaviour = "any" -> BOOLEAN
    [] behaviour = "up" -> {TRUE}
    [] behaviour = "down" -> {FALSE}
    [] behaviour = "down31" -> {k # 31}

\* whether server.store can fail, by the behaviour of the server
StoreOutcomes(behaviour) == IF behaviour = "any" THEN BOOLEAN ELSE {TRUE}

\* ------------------------------------------------------- exit statuses

\* exit statuses with authentication failures counted as socket errors
ExitStatusAuthAsSocket(fail) ==
  CASE fail = "dns" -> 1
    [] fail = "socket" -> 4
    [] fail = "tls" -> 4
    [] fail = "auth" -> 4
    [] fail = "imap" -> 5
    [] OTHER -> 1

\* What ends the run for each failure of connect_and_login and main.  The
\* handler of socket.gaierror unpacks the exception (line 721), which
\* raises TypeError in Python 3 before sys.exit(3) is reached: the run ends
\* with the status of an uncaught exception.
ExitStatus(fail) ==
  CASE fail = "dns" -> 1
    [] fail = "socket" -> 4
    [] fail = "tls" -> 4
    [] fail = "auth" -> 5
    [] fail = "imap" -> 5
    [] OTHER -> 1

\* -------------------------------------------------------------- state

VARIABLES
  config,        \* the options: [overwrite, thunderbird, icloud, usessl,
                 \* folders, exclude]; a filter that is not given is <<>>
  rows,          \* the rows the server answers LIST with
  mailbox,       \* the server: folder name -> sequence of [text, seen]
  files,         \* the archive directory: file name -> bytes
  env,           \* how the relay and the flag commands behave, see
                 \* DeliveryOutcomes and StoreOutcomes
  pc,            \* where main is
  exitcode,      \* the exit status, -1 while the run goes on
  failure,       \* what ended the run, "none" while it goes on
  names,         \* the work plan of get_names
  fi,            \* the place of the per-folder loop in names
  msg_numbers,   \* scan_folder: the search result
  mi,            \* scan_folder: the place of its loop in msg_numbers
  fol_messages,  \* the remote index
  fil_messages,  \* the local index
  new_messages,  \* the messages handed to the sink
  ri,            \* the place of the sink's loop in new_messages
  msgcounter,    \* resend_messages: messages processed
  ev,            \* the last server command and its status
  last,          \* resend_messages: how the last processed message went
  scanned,       \* the folders scan_folder was called for, in order
  relayLog,      \* the sequence numbers offered to the relay, in order
  storeLog,      \* the flag commands sent, in order: [num, cmd]
  sleeps,        \* the pauses taken: [after, secs]
  round,         \* which scan of the folder this is (1, 2)
  first_scan,    \* the remote index of the first scan
  first_run      \* what the first run left: its new messages, its flag
                 \* commands and the folder as it was at its end

vars == <<config, rows, mailbox, files, env, pc, exitcode, failure, names,
          fi, msg_numbers, mi, fol_messages, fil_messages, new_messages, ri,
          msgcounter, ev, last, scanned, relayLog, storeLog, sleeps, round,
          first_scan, first_run>>

inputs == <<config, rows, env>>
scanv == <<msg_numbers, mi, fol_messages>>
sinkv == <<ri, msgcounter, last, relayLog, storeLog, sleeps>>
probe == <<round, first_scan, first_run>>

NoEvent == [cmd |-> "none", typ |-> "OK", stage |-> "none"]
Event(cmd, typ, stage) == [cmd |-> cmd, typ |-> typ, stage |-> stage]
NoLast == [num |-> 0, delivered |-> TRUE, stored |-> TRUE, quit |-> TRUE]

Folder == names[fi].folder
FileName == names[fi].file

\* the run ends with an exception nothing catches, or with sys.exit
Die(fail) ==
  /\ pc' = "exit"
  /\ failure' = fail
  /\ exitcode' = ExitStatus(fail)

\* ----------------------------------------------------- main, the start

\* lines 771-774: both filters given ends the run before any connection
CheckFilters ==
  /\ pc = "start"
  /\ IF config.folders # <<>> /\ config.exclude # <<>>
     THEN pc' = "exit" /\ exitcode' = 2 /\ failure' = "usage"
     ELSE pc' = "connect" /\ UNCHANGED <<exitcode, failure>>
  /\ ev' = NoEvent
  /\ UNCHANGED <<inputs, mailbox, files, names, fi, scanv, fil_messages,
                 new_messages, sinkv, scanned, probe>>

\* connect_and_login (line 775) with its handlers and those of main
ConnectAndLogin ==
  /\ pc = "connect"
  /\ \E outcome \in {"ok", "dns", "socket", "auth"}
                     \cup (IF config.usessl THEN {"tls"} ELSE {}) :
       IF outcome = "ok"
       THEN pc' = "list" /\ UNCHANGED <<exitcode, failure>>
       ELSE Die(outcome)
  /\ ev' = Event("connect", "OK", "start")
  /\ UNCHANGED <<inputs, mailbox, files, names, fi, scanv, fil_messages,
                 new_messages, sinkv, scanned, probe>>

\* line 781: a leading Inbox of a listed folder is read as INBOX
Dir(i, thunderbird) ==
  IF thunderbird /\ i # <<>> /\ Head(i) = "Inbox" THEN <<"INBOX">> \o Tail(i)
  ELSE i

\* a filter that lets every folder through
FilterNamesAll(nms, folders, thunderbird) == nms


\* lines 778-783: the work plan under the inclusion list
FilterNames(nms, folders, thunderbird) ==
  IF folders = <<>> THEN nms
  ELSE SelectSeq(nms, LAMBDA x :
         \E k \in 1..Len(folders) : x.folder = Dir(folders[k], thunderbird))

\* lines 777, 784-785: the exclusion list in force
ExcludeFolders(cfg) == IF cfg.folders # <<>> THEN <<>> ELSE cfg.exclude

\* lines 776-785: get_names (LIST, the parse of its rows, the name
\* mapping), then the filters
GetNames ==
  /\ pc = "list"
  /\ \E typ \in Status :
       LET got == get_names(rows, config.thunderbird) IN
       /\ ev' = Event("list", typ, "start")
       /\ IF typ # "OK" THEN Die("assert") /\ UNCHANGED names
          ELSE IF ~got.ok THEN Die("parse") /\ UNCHANGED names
          ELSE /\ names' = FilterNames(got.names, config.folders,
                                       config.thunderbird)
               /\ pc' = "loop"
               /\ UNCHANGED <<exitcode, failure>>
  /\ UNCHANGED <<inputs, mailbox, files, fi, scanv, fil_messages,
                 new_messages, sinkv, scanned, probe>>

\* the head of the per-folder loop (lines 799-808): the next folder is
\* handed to scan_folder
Excluded ==
  \E k \in 1..Len(ExcludeFolders(config)) : ExcludeFolders(config)[k] = Folder

EnterFolder ==
  /\ pc = "loop"
  /\ fi <= Len(names)
  /\ ~Excluded
  /\ pc' = "select"
  /\ scanned' = Append(scanned, Folder)
  /\ msg_numbers' = <<>>
  /\ mi' = 1
  /\ fol_messages' = <<>>
  /\ fil_messages' = <<>>
  /\ new_messages' = <<>>
  /\ ev' = NoEvent
  /\ UNCHANGED <<inputs, mailbox, files, exitcode, failure, names, fi, sinkv,
                 probe>>

\* lines 803-805: an excluded folder is passed over
SkipExcluded ==
  /\ pc = "loop"
  /\ fi <= Len(names)
  /\ Excluded
  /\ fi' = fi + 1
  /\ ev' = NoEvent
  /\ UNCHANGED <<inputs, mailbox, files, pc, exitcode, failure, names, scanv,
                 fil_messages, new_messages, sinkv, scanned, probe>>

\* lines 824-825: the loop is over
Logout ==
  /\ pc = "loop"
  /\ fi > Len(names)
  /\ pc' = "exit"
  /\ exitcode' = 0
  /\ ev' = NoEvent
  /\ UNCHANGED <<inputs, mailbox, files, failure, names, fi, scanv,
                 fil_messages, new_messages, sinkv, scanned, probe>>

\* SkipFolderException reaches line 821: on to the next folder
SkipFolder ==
  /\ pc' = "loop"
  /\ fi' = fi + 1
  /\ UNCHANGED <<exitcode, failure>>

\* a server command raises socket.error or IMAP4.error (lines 826-832)
CommandRaises ==
  /\ \/ pc \in {"list", "select", "search"}
     \/ pc = "fetch" /\ mi <= Len(msg_numbers)
     \/ pc = "resend" /\ ri <= Len(new_messages)
  /\ \E fail \in {"socket", "imap"} : Die(fail)
  /\ ev' = Event("raise", "OK", pc)
  /\ UNCHANGED <<inputs, mailbox, files, names, fi, scanv, fil_messages,
                 new_messages, sinkv, scanned, probe>>

\* -------------------------------------------------------- scan_folder

\* line 359
Select ==
  /\ pc = "select"
  /\ \E typ \in Status :
       /\ ev' = Event("select", typ, "scan")
       /\ IF typ = "OK" THEN pc' = "search" /\ UNCHANGED <<exitcode, failure, fi>>
          ELSE SkipFolder
  /\ UNCHANGED <<inputs, mailbox, files, names, scanv, fil_messages,
                 new_messages, sinkv, scanned, probe>>

\* lines 362-367
Search ==
  /\ pc = "search"
  /\ \E typ \in Status :
       /\ ev' = Event("search", typ, "scan")
       /\ IF typ = "OK"
          THEN /\ pc' = "fetch"
               /\ msg_numbers' = SearchUnseen(mailbox[Folder])
               /\ UNCHANGED <<exitcode, failure, fi>>
          ELSE SkipFolder /\ UNCHANGED msg_numbers
  /\ UNCHANGED <<inputs, mailbox, files, names, mi, fol_messages, fil_messages,
                 new_messages, sinkv, scanned, probe>>

\* BODY[...] without PEEK sets \Seen on the message (RFC 3501, 6.4.5)
MarkSeen(box, folder, num) == [box EXCEPT ![folder][num].seen = TRUE]

\* lines 386-415: one turn of the loop of scan_folder.  typ answers the
\* fetch of line 387, msg_typ the fetch of line 405 when it is sent.
ScanMessage ==
  /\ pc = "fetch"
  /\ mi <= Len(msg_numbers)
  /\ \E typ \in Status, msg_typ \in Status :
       LET num == msg_numbers[mi]
           text == mailbox[Folder][num].text
           msg_id == FolderMsgId(HeaderFieldsOf(text, "M"))
       IN
       IF typ # "OK"
       THEN /\ ev' = Event("fetch", typ, "scan")
            /\ SkipFolder
            /\ UNCHANGED <<mailbox, mi, fol_messages>>
       ELSE IF msg_id # NoMatch
       THEN /\ ev' = Event("fetch", typ, "scan")
            /\ fol_messages' = AddGenuine(fol_messages, msg_id, num)
            /\ mi' = mi + 1
            /\ UNCHANGED <<mailbox, pc, exitcode, failure, fi>>
       ELSE IF msg_typ # "OK"
       THEN /\ ev' = Event("fetch", msg_typ, "scan")
            /\ SkipFolder
            /\ UNCHANGED <<mailbox, mi, fol_messages>>
       ELSE /\ ev' = Event("fetch", msg_typ, "scan")
            /\ fol_messages' =
                 AddSynthesised(fol_messages, HeaderFieldsOf(text, "H"), num)
            /\ mailbox' = MarkSeen(mailbox, Folder, num)
            /\ mi' = mi + 1
            /\ UNCHANGED <<pc, exitcode, failure, fi>>
  /\ UNCHANGED <<inputs, files, names, msg_numbers, fil_messages,
                 new_messages, sinkv, scanned, probe>>

\* lines 809-816: scan_folder has returned; scan_file, then the new messages
ScanFileAndReconcile ==
  /\ pc = "fetch"
  /\ mi > Len(msg_numbers)
  /\ fil_messages' = scan_file(files, FileName, config.overwrite)
  /\ new_messages' = Reconcile(fol_messages, fil_messages')
  /\ pc' = "sink"
  /\ ri' = 1
  /\ msgcounter' = 0
  /\ last' = NoLast
  /\ relayLog' = <<>>
  /\ storeLog' = <<>>
  /\ sleeps' = <<>>
  /\ ev' = NoEvent
  /\ UNCHANGED <<inputs, mailbox, files, exitcode, failure, names, fi, scanv,
                 scanned, probe>>

\* ---------------------------------------------------- resend_messages

\* server.store: the flag is changed when the command succeeds
StoreFlag(box, folder, num, cmd, stored) ==
  IF stored THEN [box EXCEPT ![folder][num].seen = (cmd = "+FLAGS")] ELSE box

\* lines 219-236: nothing to do, or the loop is entered
ResendEnter ==
  /\ pc = "sink"
  /\ IF Len(new_messages) = 0
     THEN pc' = "loop" /\ fi' = fi + 1 /\ ev' = Event("return", "OK", "sink")
     ELSE pc' = "resend" /\ UNCHANGED fi /\ ev' = NoEvent
  /\ UNCHANGED <<inputs, mailbox, files, exitcode, failure, names, scanv,
                 fil_messages, new_messages, sinkv, scanned, probe>>

\* lines 237-290: one turn of the loop of resend_messages.  typ and ftyp
\* answer the fetches of lines 241 and 243 (an answer other than OK fails
\* the assertion, which nothing catches); delivered, stored and quit tell
\* whether lines 253-256, the store and line 276 raised nothing.
ResendMessage ==
  /\ pc = "resend"
  /\ ri <= Len(new_messages)
  /\ \E typ \in Status, ftyp \in Status :
     \E delivered \in DeliveryOutcomes(env, msgcounter + 1) :
     \E stored \in StoreOutcomes(env), quit \in BOOLEAN :
       LET num == new_messages[ri].num
           cmd == FlagCommand(delivered)
       IN
       IF typ # "OK" \/ ftyp # "OK"
       THEN /\ ev' = Event("fetch", "NO", "sink")
            /\ Die("assert")
            /\ UNCHANGED <<mailbox, sinkv, fi>>
       ELSE IF Escapes(delivered, stored, quit)
       THEN /\ ev' = Event("relay", "OK", "sink")
            /\ Die("relay")
            /\ UNCHANGED <<mailbox, sinkv, fi>>
       ELSE /\ ev' = Event("store", IF stored THEN "OK" ELSE "NO", "sink")
            /\ relayLog' = Append(relayLog, num)
            /\ storeLog' = Append(storeLog, [num |-> num, cmd |-> cmd])
            /\ mailbox' = StoreFlag(mailbox, Folder, num, cmd, stored)
            /\ last' = [num |-> num, delivered |-> delivered,
                        stored |-> stored, quit |-> quit]
            /\ msgcounter' = Counted(msgcounter, delivered)
            /\ sleeps' = IF PauseDue(msgcounter')
                         THEN Append(sleeps, [after |-> msgcounter',
                                              secs |-> PauseSeconds])
                         ELSE sleeps
            /\ ri' = ri + 1
            /\ UNCHANGED <<pc, exitcode, failure, fi>>
  /\ UNCHANGED <<inputs, files, names, scanv, fil_messages, new_messages,
                 scanned, probe>>

\* lines 292-294: resend_messages returns, on to the next folder
ResendReturn ==
  /\ pc = "resend"
  /\ ri > Len(new_messages)
  /\ pc' = "loop"
  /\ fi' = fi + 1
  /\ ev' = Event("return", "OK", "sink")
  /\ UNCHANGED <<inputs, mailbox, files, exitcode, failure, names, scanv,
                 fil_messages, new_messages, sinkv, scanned, probe>>

\* --------------------------------------------------- download_messages

AppendFile(dir, name, bytes) == [dir EXCEPT ![name] = @ \o bytes]

\* lines 145-150: the file is removed when it is to be overwritten, and
\* opened for append, which creates it
OpenForAppend(dir, name, overwrite) ==
  IF name \in DOMAIN dir /\ ~overwrite THEN dir
  ELSE [f \in DOMAIN dir \cup {name} |-> IF f = name THEN <<>> ELSE dir[f]]

\* lines 143-161: the archive is opened; nothing to do, or the loop is entered
DownloadOpen ==
  /\ pc = "sink"
  /\ files' = OpenForAppend(files, FileName, config.overwrite)
  /\ IF Len(new_messages) = 0
     THEN pc' = "loop" /\ fi' = fi + 1 /\ ev' = Event("return", "OK", "sink")
     ELSE pc' = "download" /\ UNCHANGED fi /\ ev' = NoEvent
  /\ UNCHANGED <<inputs, mailbox, exitcode, failure, names, scanv,
                 fil_messages, new_messages, sinkv, scanned, probe>>

\* line 184: RFC822 sets \Seen as BODY[] does, BODY.PEEK[] does not
FetchBody(box, folder, num, icloud) ==
  IF icloud THEN box ELSE MarkSeen(box, folder, num)

\* lines 166-209: one turn of the loop of download_messages.  The envelope
\* line (and the synthesised Message-Id) is written before the fetch; a
\* fetch that is not answered OK fails the assertion of line 187, which
\* nothing catches, and the file is closed as it is when the run ends.
DownloadMessage ==
  /\ pc = "download"
  /\ ri <= Len(new_messages)
  /\ \E typ \in Status :
       LET msg_id == new_messages[ri].id
           num == new_messages[ri].num
           opened == AppendFile(files, FileName, BlockHead(msg_id))
           text == ArchivedText(mailbox[Folder][num].text, config.thunderbird)
       IN
       /\ ev' = Event("fetch", typ, "sink")
       /\ IF typ # "OK"
          THEN /\ files' = opened
               /\ Die("assert")
               /\ UNCHANGED <<mailbox, ri, fi>>
          ELSE /\ files' = AppendFile(opened, FileName, text \o <<LF, LF>>)
               /\ mailbox' = FetchBody(mailbox, Folder, num, config.icloud)
               /\ ri' = ri + 1
               /\ UNCHANGED <<pc, exitcode, failure, fi>>
  /\ UNCHANGED <<inputs, names, scanv, fil_messages, new_messages, msgcounter,
                 last, relayLog, storeLog, sleeps, scanned, probe>>

\* lines 211-214: download_messages returns, on to the next folder
DownloadReturn ==
  /\ pc = "download"
  /\ ri > Len(new_messages)
  /\ pc' = "loop"
  /\ fi' = fi + 1
  /\ ev' = Event("return", "OK", "sink")
  /\ UNCHANGED <<inputs, mailbox, files, exitcode, failure, names, scanv,
                 fil_messages, new_messages, sinkv, scanned, probe>>

\* lines 809-813 once more, after the sink has returned: the local index is
\* rebuilt from the archive and the remote index that was scanned is
\* reconciled with it again
ReconcileAgain ==
  /\ pc = "loop"
  /\ ev.cmd = "return"
  /\ round = 1
  /\ fil_messages' = scan_file(files, names[fi - 1].file, config.overwrite)
  /\ new_messages' = Reconcile(fol_messages, fil_messages')
  /\ round' = 2
  /\ pc' = "again"
  /\ ev' = NoEvent
  /\ UNCHANGED <<inputs, mailbox, files, exitcode, failure, names, fi, scanv,
                 sinkv, scanned, first_scan, first_run>>

\* lines 353-358 once more, after scan_folder has returned: the same folder
\* is scanned again, with nothing done in between
ScanAgain ==
  /\ pc = "fetch"
  /\ mi > Len(msg_numbers)
  /\ round = 1
  /\ first_scan' = fol_messages
  /\ round' = 2
  /\ pc' = "select"
  /\ msg_numbers' = <<>>
  /\ mi' = 1
  /\ fol_messages' = <<>>
  /\ ev' = NoEvent
  /\ UNCHANGED <<inputs, mailbox, files, exitcode, failure, names, fi,
                 fil_messages, new_messages, sinkv, scanned, first_run>>

\* ------------------------------------------------------------- inputs

CRLF == <<CR, LF>>
HeaderM(v) == <<"M", ":", SP>> \o v \o CRLF
HeaderH(v) == <<"H", ":", SP>> \o v \o CRLF
Body(ts) == CRLF \o ts \o CRLF

\* a message with Message-Id a
TextA == HeaderM(<<"a">>) \o HeaderH(<<"x">>) \o Body(<<"t">>)
\* the same identifier, folded onto a second line
TextFolded == <<"M", ":">> \o CRLF \o <<SP, "a">> \o CRLF \o HeaderH(<<"y">>)
                \o Body(<<"t">>)
\* a message with Message-Id b
TextB == HeaderM(<<"b">>) \o HeaderH(<<"x">>) \o Body(<<"t">>)
\* no Message-Id
TextNone == HeaderH(<<"x">>) \o Body(<<"t">>)
\* a Message-Id the expression does not match (no space after the colon),
\* and the same From/To/Cc/Date/Subject block as TextNone
TextMalformed == <<"M", ":", "a">> \o CRLF \o HeaderH(<<"x">>) \o Body(<<"u">>)

Msg(text, seen) == [text |-> text, seen |-> seen]

RECURSIVE SeqsUpTo(_, _)
SeqsUpTo(S, n) ==
  IF n = 0 THEN {<<>>}
  ELSE LET shorter == SeqsUpTo(S, n - 1)
       IN shorter \cup {Append(q, x) : q \in {r \in shorter : Len(r) = n - 1}, x \in S}

Distinct(q) == \A i, j \in 1..Len(q) : i # j => q[i] # q[j]

Quoted(ts) == <<QUOTE>> \o ts \o <<QUOTE>>
NameA == <<"a">>
NameB == <<"INBOX", "/", "b">>
\* (\n) "/" "a"
RowA == <<"(", BSLASH, "n", ")", SP>> \o Quoted(<<"/">>) \o <<SP>> \o Quoted(NameA)
\* () "/" INBOX/b
RowB == <<"(", ")", SP>> \o Quoted(<<"/">>) \o <<SP>> \o NameB
\* a row that does not start with a parenthesis
RowNoParen == Quoted(<<"/">>) \o <<SP>> \o Quoted(NameA)
\* a row with three strings after the attributes
RowThree == <<"(", ")", SP>> \o Quoted(<<"/">>) \o <<SP, "a", SP, "b">>

BaseConfig == [overwrite |-> FALSE, thunderbird |-> FALSE, icloud |-> FALSE,
               usessl |-> FALSE, folders |-> <<>>, exclude |-> <<>>]

\* the archive an earlier run left for a message with a genuine identifier
ArchiveOf(text) == BlockHead(<<"a">>) \o ArchivedText(text, FALSE) \o <<LF, LF>>

PlanOf(listing, cfg) ==
  LET got == get_names(listing, cfg.thunderbird)
  IN IF got.ok THEN got.names ELSE <<>>

FoldersOf(listing, cfg) ==
  {PlanOf(listing, cfg)[i].folder : i \in 1..Len(PlanOf(listing, cfg))}

FilesOf(listing, cfg) ==
  {PlanOf(listing, cfg)[i].file : i \in 1..Len(PlanOf(listing, cfg))}

\* The state main starts in, for given sets of options, listings, folder
\* contents, archive contents and behaviours of the relay.
Start(configs, listings, boxes, archives, behaviours) ==
  /\ config \in configs
  /\ rows \in listings
  /\ mailbox \in [FoldersOf(rows, config) -> boxes]
  /\ files \in UNION {[S -> archives] : S \in SUBSET FilesOf(rows, config)}
  /\ env \in behaviours
  /\ pc = "start"
  /\ exitcode = -1
  /\ failure = "none"
  /\ names = <<>>
  /\ fi = 1
  /\ msg_numbers = <<>>
  /\ mi = 1
  /\ fol_messages = <<>>
  /\ fil_messages = <<>>
  /\ new_messages = <<>>
  /\ ri = 1
  /\ msgcounter = 0
  /\ ev = NoEvent
  /\ last = NoLast
  /\ scanned = <<>>
  /\ relayLog = <<>>
  /\ storeLog = <<>>
  /\ sleeps = <<>>
  /\ round = 1
  /\ first_scan = <<>>
  /\ first_run = <<>>

\* -------------------------------------------- the run, as main is written

MaxFolders == 2

RunConfigs ==
  {BaseConfig,
   [BaseConfig EXCEPT !.overwrite = TRUE],
   [BaseConfig EXCEPT !.thunderbird = TRUE, !.usessl = TRUE],
   [BaseConfig EXCEPT !.folders = <<NameB>>],
   [BaseConfig EXCEPT !.exclude = <<NameA>>],
   [BaseConfig EXCEPT !.folders = <<NameA>>, !.exclude = <<NameA>>]}

RunListings ==
  {l \in SeqsUpTo({RowA, RowB, RowNoParen, RowThree}, MaxFolders) :
     l # <<>> /\ Distinct(l)}

RunBoxes ==
  {<<>>, <<Msg(TextA, FALSE)>>, <<Msg(TextNone, FALSE)>>,
   <<Msg(TextB, TRUE), Msg(TextA, FALSE), Msg(TextNone, FALSE)>>}

Init == Start(RunConfigs, RunListings, RunBoxes, {ArchiveOf(TextA)}, {"any"})

Next ==
  \/ CheckFilters
  \/ ConnectAndLogin
  \/ GetNames
  \/ EnterFolder
  \/ SkipExcluded
  \/ Logout
  \/ CommandRaises
  \/ Select
  \/ Search
  \/ ScanMessage
  \/ ScanFileAndReconcile
  \/ ResendEnter
  \/ ResendMessage
  \/ ResendReturn

Spec == Init /\ [][Next]_vars

\* ------------------------------------- one folder, with richer contents

MaxMsgs == 3

FolderConfigs ==
  {BaseConfig,
   [BaseConfig EXCEPT !.overwrite = TRUE],
   [BaseConfig EXCEPT !.exclude = <<NameA>>, !.usessl = TRUE]}

FolderMsgs ==
  {Msg(TextA, FALSE), Msg(TextFolded, FALSE), Msg(TextNone, FALSE),
   Msg(TextMalformed, FALSE), Msg(TextB, FALSE), Msg(TextB, TRUE)}

InitFolder ==
  Start(FolderConfigs, {<<RowA>>}, SeqsUpTo(FolderMsgs, MaxMsgs),
        {ArchiveOf(TextA)}, {"any"})

SpecFolder == InitFolder /\ [][Next]_vars

\* ------------------------------------------------ one folder, long batches

MaxBatch == 61

\* n unread messages with pairwise different Message-Ids
Batch(n) ==
  [i \in 1..n |-> Msg(HeaderM(<<ToString(i)>>) \o Body(<<"t">>), FALSE)]

InitThrottle ==
  Start({BaseConfig, [BaseConfig EXCEPT !.exclude = <<NameA>>, !.usessl = TRUE]},
        {<<RowA>>}, {Batch(n) : n \in 0..MaxBatch}, {},
        {"up", "down", "down31"})

SpecThrottle == InitThrottle /\ [][Next]_vars

\* ------------------------- one folder, archived by download_messages

MaxArchived == 2

\* two Message-Id fields
TextDouble == HeaderM(<<"a">>) \o HeaderM(<<"b">>) \o Body(<<"t">>)
\* no Message-Id, and lines in the body that start with `From '
TextFromLines ==
  HeaderH(<<"y">>) \o Body(<<"F", "t">> \o CRLF \o <<">", "F", "t">>)

ArchiveConfigs ==
  {[BaseConfig EXCEPT !.overwrite = o, !.thunderbird = t, !.icloud = i] :
     o \in BOOLEAN, t \in BOOLEAN, i \in BOOLEAN}

ArchiveMsgs ==
  {Msg(t, FALSE) : t \in {TextA, TextFolded, TextNone, TextMalformed,
                           TextDouble, TextFromLines}}

\* main is at the head of its loop, with the work plan of get_names
AtLoop(configs, listings, boxes, archives) ==
  /\ Start(configs, listings, boxes, archives, {"any"})!1
  /\ Start(configs, listings, boxes, archives, {"any"})!2
  /\ Start(configs, listings, boxes, archives, {"any"})!3
  /\ Start(configs, listings, boxes, archives, {"any"})!4
  /\ env = "any"
  /\ pc = "loop"
  /\ exitcode = -1
  /\ failure = "none"
  /\ names = PlanOf(rows, config)
  /\ fi = 1
  /\ msg_numbers = <<>>
  /\ mi = 1
  /\ fol_messages = <<>>
  /\ fil_messages = <<>>
  /\ new_messages = <<>>
  /\ ri = 1
  /\ msgcounter = 0
  /\ ev = NoEvent
  /\ last = NoLast
  /\ scanned = <<>>
  /\ relayLog = <<>>
  /\ storeLog = <<>>
  /\ sleeps = <<>>
  /\ round = 1
  /\ first_scan = <<>>
  /\ first_run = <<>>

InitArchive ==
  AtLoop(ArchiveConfigs, {<<RowA>>}, SeqsUpTo(ArchiveMsgs, MaxArchived),
         {ArchiveOf(TextA)})

\* the loop of main with line 818 in the place of line 819
NextArchive ==
  \/ EnterFolder
  \/ Select
  \/ Search
  \/ ScanMessage
  \/ ScanFileAndReconcile
  \/ DownloadOpen
  \/ DownloadMessage
  \/ DownloadReturn
  \/ ReconcileAgain

SpecArchive == InitArchive /\ [][NextArchive]_vars

\* ------------------------------------------ one folder, scanned twice

MaxScanned == 3

InitScan ==
  AtLoop({BaseConfig}, {<<RowA>>}, SeqsUpTo(FolderMsgs, MaxScanned), {})

NextScan ==
  \/ EnterFolder
  \/ Select
  \/ Search
  \/ ScanMessage
  \/ ScanAgain

SpecScan == InitScan /\ [][NextScan]_vars

\* ------------------------------------------------------------- claims

Range(q) == {q[i] : i \in 1..Len(q)}

\* the place of identifier k in the ordered dict d
PlaceOf(d, k) == CHOOSE i \in 1..Len(d) : d[i].id = k

InSink == pc \in {"sink", "resend"}

\* C1: the new messages are exactly the entries of the remote index whose
\* identifier the local index lacks, each with the sequence number it has in
\* the remote index, in the order of the remote index; nothing else is in.
C1_NewMessageSet ==
  InSink =>
    /\ \A i \in 1..Len(new_messages) : new_messages[i] \in Range(fol_messages)
    /\ \A j \in 1..Len(fol_messages) :
         (fol_messages[j].id \notin Range(fil_messages))
           <=> (fol_messages[j].id \in Keys(new_messages))
    /\ \A i, j \in 1..Len(new_messages) :
         i < j => PlaceOf(fol_messages, new_messages[i].id)
                    < PlaceOf(fol_messages, new_messages[j].id)

C1_Witness ==
  /\ pc = "sink"
  /\ Len(new_messages) = 2
  /\ Len(fol_messages) = 3
  /\ new_messages[1].num # 1

\* the identifier scan_folder gives a message: its Message-Id, else the
\* synthesised one
RemoteId(text) ==
  LET msg_id == FolderMsgId(HeaderFieldsOf(text, "M"))
  IN IF msg_id # NoMatch THEN msg_id ELSE SynthId(HeaderFieldsOf(text, "H"))

\* the sequence numbers scan_folder has been through that carry identifier k
SeenWith(k) ==
  {msg_numbers[p] : p \in {q \in 1..(mi - 1) :
      RemoteId(mailbox[Folder][msg_numbers[q]].text) = k}}

\* C2: while scan_folder builds the remote index, every identifier, genuine
\* or synthesised, keeps the sequence number of its first occurrence.
C2_FirstSeenWins ==
  pc = "fetch" =>
    \A j \in 1..Len(fol_messages) :
      \A n \in SeenWith(fol_messages[j].id) : fol_messages[j].num <= n

\* C5: every processed message has exactly one flag command, +FLAGS when its
\* delivery raised nothing and -FLAGS when it raised.
C5_OneStorePerMessage ==
  pc = "resend" =>
    /\ Len(storeLog) = ri - 1
    /\ \A i \in 1..Len(storeLog) : storeLog[i].num = new_messages[i].num
    /\ last.num # 0 =>
         /\ storeLog[Len(storeLog)].num = last.num
         /\ (storeLog[Len(storeLog)].cmd = "+FLAGS") <=> last.delivered
         /\ (storeLog[Len(storeLog)].cmd = "-FLAGS") <=> ~last.delivered

C5_Witness ==
  /\ pc = "resend"
  /\ Len(storeLog) = 2
  /\ storeLog[1].cmd = "+FLAGS"
  /\ ~last.delivered

\* C6: a failed delivery, a failed flag command or a failed quit never ends
\* the batch: the loop goes on with the next message, and a batch that
\* returns has offered every new message to the relay, in order.
C6_FailuresDoNotAbort ==
  /\ (ev.cmd = "store" /\ ~(last.delivered /\ last.stored /\ last.quit))
       => (pc = "resend" /\ exitcode = -1 /\ ri = Len(relayLog) + 1)
  /\ pc = "resend" =>
       relayLog = [i \in 1..(ri - 1) |-> new_messages[i].num]
  /\ (ev.cmd = "return" /\ pc = "loop") =>
       relayLog = [i \in 1..Len(new_messages) |-> new_messages[i].num]
  /\ (pc = "exit" /\ ev.stage = "sink") => ev.cmd \in {"fetch", "raise"}

C6_Witness ==
  /\ ev.cmd = "return"
  /\ Len(relayLog) = 3
  /\ storeLog[1].cmd = "-FLAGS"
  /\ ~last.stored
  /\ ~last.quit

\* C7: resend_messages pauses 60 seconds exactly after the 30th, 60th, ...
\* message it has processed, delivered or not; a batch of n pauses n \div 30
\* times.
C7_PauseEveryThirty ==
  (pc = "resend" \/ (ev.cmd = "return" /\ pc = "loop")) =>
    /\ msgcounter = Len(relayLog)
    /\ Len(sleeps) = msgcounter \div 30
    /\ \A k \in 1..Len(sleeps) : sleeps[k] = [after |-> 30 * k, secs |-> 60]
    /\ ev.cmd = "return" => Len(sleeps) = Len(new_messages) \div 30

\* a batch of 35 in which delivery 31 failed: one pause, after message 30
C7_Witness ==
  /\ ev.cmd = "return"
  /\ env = "down31"
  /\ Len(new_messages) = 35
  /\ storeLog[30].cmd = "+FLAGS"
  /\ storeLog[31].cmd = "-FLAGS"
  /\ storeLog[32].cmd = "+FLAGS"
  /\ sleeps = <<[after |-> 30, secs |-> 60]>>

\* C8: a select, search or fetch of a folder that is answered with a failure
\* status, in the scan or in the sink, ends the processing of that folder
\* and the run goes on with the next folder.
C8_FailureSkipsFolder ==
  (ev.cmd \in {"select", "search", "fetch"} /\ ev.typ = "NO") =>
    (pc = "loop" /\ exitcode = -1)

\* C9: a LIST row that does not parse is an error of that row only: the
\* rows that do parse are all in the work plan and the run goes on.
C9_ParseErrorIsRowScoped ==
  (ev.cmd = "list" /\ ev.typ = "OK" /\ config.folders = <<>>) =>
    /\ pc = "loop"
    /\ \A k \in 1..Len(rows) :
         parse_list(rows[k]).ok =>
           \E i \in 1..Len(names) : names[i].folder = parse_list(rows[k]).name

ConnectionFailures == {"dns", "socket", "auth", "tls"}

\* C10 as stated: a connection-scoped failure ends the run with a status
\* other than 0 that no other category of connection failure ends with.
C10_DistinctStatusPerCategory ==
  (pc = "exit" /\ failure \in ConnectionFailures) =>
    /\ exitcode # 0
    /\ \A other \in ConnectionFailures \ {failure} : exitcode # ExitStatus(other)

\* C10 as amended: a connection-scoped failure ends the run, with nothing
\* left to do, with a status other than 0; the statuses of DNS, socket and
\* authentication failures differ from each other, and a TLS key or
\* certificate error ends with the status of a socket error.
C10_StatusPerCategory ==
  (pc = "exit" /\ failure \in ConnectionFailures) =>
    /\ exitcode # 0
    /\ ~ENABLED Next
    /\ failure = "tls" => exitcode = 4
    /\ failure = "socket" => exitcode = 4
    /\ failure = "tls" =>
         \A other \in {"dns", "auth"} : exitcode # ExitStatus(other)
    /\ failure # "tls" =>
         \A other \in {"dns", "socket", "auth"} \ {failure} :
           exitcode # ExitStatus(other)

\* a run that a TLS key or certificate error ended
C10_Witness ==
  /\ pc = "exit"
  /\ failure = "tls"
  /\ exitcode = 4
  /\ scanned = <<>>

\* C3, for a run that appends: once download_messages has archived every
\* new message and scan_file has rebuilt the local index, reconciling the
\* remote index that was scanned yields no new message.
C3_IdempotentAcrossArchive ==
  (pc = "again" /\ ~config.overwrite) => new_messages = <<>>

\* C4: a second scan_folder of the same folder, with nothing done in
\* between, returns the remote index of the first.
C4_RescanIsIdentical ==
  (round = 2 /\ pc = "fetch" /\ mi > Len(msg_numbers)) =>
    fol_messages = first_scan

\* ------------------------------------------- the run, with folder filters

\* the folder Inboxx
NameInbox == <<"Inbox", "x">>
\* the name Thunderbird shows for NameB
NameBShown == <<"Inbox", "/", "b">>
\* () "/" Inboxx
RowInbox == <<"(", ")", SP>> \o Quoted(<<"/">>) \o <<SP>> \o NameInbox

FilterConfigs ==
  {[BaseConfig EXCEPT !.thunderbird = t, !.folders = f, !.exclude = e] :
     t \in BOOLEAN,
     f \in {<<>>, <<NameB>>, <<NameBShown>>, <<NameInbox, NameA>>},
     e \in {<<>>, <<NameA>>, <<NameBShown>>}}

FilterListings ==
  {l \in SeqsUpTo({RowA, RowB, RowInbox}, MaxFolders) : l # <<>> /\ Distinct(l)}

InitFilter ==
  Start(FilterConfigs, FilterListings, {<<>>, <<Msg(TextA, FALSE)>>}, {}, {"up"})

SpecFilter == InitFilter /\ [][Next]_vars

\* the folders of the listing
Listed == {PlanOf(rows, config)[i].folder : i \in 1..Len(PlanOf(rows, config))}

BothFilters == config.folders # <<>> /\ config.exclude # <<>>

\* both lists given: the run ends with status 2 and nothing was sent
UsageError ==
  BothFilters =>
    \/ pc = "start"
    \/ pc = "exit" /\ exitcode = 2 /\ ev = NoEvent /\ scanned = <<>>

\* C11 as stated: the two lists exclude each other, and a listed folder is
\* scanned exactly if the inclusion list names it or, without an inclusion
\* list, the exclusion list does not name it.
C11_FilterByName ==
  /\ UsageError
  /\ (pc = "exit" /\ exitcode = 0) =>
       \A f \in Listed :
         f \in Range(scanned) <=>
           IF config.folders # <<>> THEN f \in Range(config.folders)
           ELSE f \notin Range(config.exclude)

\* entry d of the inclusion list names folder f: it is f, where in the
\* hierarchical mode an entry that begins with Inbox stands for the name
\* that begins with INBOX instead
NamedBy(d, f) ==
  IF config.thunderbird /\ d # <<>> /\ d[1] = "Inbox"
  THEN f # <<>> /\ f[1] = "INBOX" /\ Tail(f) = Tail(d)
  ELSE f = d

Wanted(f) ==
  IF config.folders # <<>>
  THEN \E d \in Range(config.folders) : NamedBy(d, f)
  ELSE f \notin Range(config.exclude)

\* C11 as amended: as stated, with the entries of the inclusion list read
\* as the hierarchical mode reads them; no other folder is ever scanned, and
\* a run that ends normally has scanned every wanted folder of the listing.
C11_FilterByShownName ==
  /\ UsageError
  /\ \A f \in Range(scanned) : f \in Listed /\ Wanted(f)
  /\ (pc = "exit" /\ exitcode = 0) =>
       \A f \in Listed : Wanted(f) => f \in Range(scanned)

\* a hierarchical run that scanned INBOX/b for the entry Inbox/b and passed
\* over Inboxx
C11_Witness ==
  /\ pc = "exit"
  /\ exitcode = 0
  /\ config.thunderbird
  /\ config.folders = <<NameBShown>>
  /\ Len(rows) = 2
  /\ NameInbox \in Listed
  /\ scanned = <<NameB>>

\* ------------------------------- one folder, with an archive of any origin

MaxEntries == 2

\* an archived message as any mbox writer leaves it: envelope line, header
\* lines, empty line, body, empty line
Entry(headers) == EnvelopeLine \o headers \o <<LF, "t", LF, LF>>

\* the header lines of archive entries: Message-Id a, Message-Id b, Message-Id
\* a folded onto a second line, no Message-Id, a Message-Id without a value
EntryHeaders ==
  {<<"M", ":", SP, "a", LF, "H", ":", SP, "x", LF>>,
   <<"M", ":", SP, "b", LF>>,
   <<"M", ":", LF, SP, "a", LF>>,
   <<"H", ":", SP, "x", LF>>,
   <<"M", ":", LF, "H", ":", SP, "x", LF>>}

RECURSIVE Concat(_)
Concat(q) == IF q = <<>> THEN <<>> ELSE Head(q) \o Concat(Tail(q))

Archives ==
  {Concat([i \in 1..Len(q) |-> Entry(q[i])]) : q \in SeqsUpTo(EntryHeaders, MaxEntries)}

InitFile ==
  AtLoop({BaseConfig, [BaseConfig EXCEPT !.overwrite = TRUE]}, {<<RowA>>},
         {<<>>, <<Msg(TextA, FALSE)>>, <<Msg(TextNone, FALSE), Msg(TextB, FALSE)>>},
         Archives)

NextFile ==
  \/ EnterFolder
  \/ Select
  \/ Search
  \/ ScanMessage
  \/ ScanFileAndReconcile

SpecFile == InitFile /\ [][NextFile]_vars

\* the entries of the archive scan_file has read
EntriesRead ==
  IF FileName \in DOMAIN files THEN Range(MboxMessages(files[FileName])) ELSE {}

\* the values of the Message-Id fields of an entry, continuation lines
\* joined, without the white space around them
MessageIdValues(entry) ==
  LET fs == SelectFields(Fields(entry, <<>>), "M")
  IN {BlanksSub(Strip(JoinWith(<<Drop(fs[k][1], 2)>> \o Tail(fs[k]), <<LF>>))) :
        k \in 1..Len(fs)}

\* C12: the local index holds only identifiers that are the value of a
\* Message-Id field of an entry of the archive; an entry without such a
\* field, or with an empty one, contributes nothing.
C12_OnlyWellFormedIds ==
  pc = "sink" =>
    \A msg_id \in Range(fil_messages) :
      \E entry \in EntriesRead :
        msg_id # <<>> /\ msg_id \in MessageIdValues(entry)

\* --------------------- one folder, archived, with `From ' lines anywhere

MaxQuoted == 2

\* a message whose first line starts with `From '
TextFromFirst == <<"F", "x">> \o CRLF \o HeaderM(<<"a">>) \o Body(<<"t">>)

QuoteMsgs == {Msg(t, FALSE) : t \in {TextB, TextFromLines, TextFromFirst}}

InitQuote ==
  AtLoop({BaseConfig, [BaseConfig EXCEPT !.thunderbird = TRUE]}, {<<RowA>>},
         SeqsUpTo(QuoteMsgs, MaxQuoted), {})

SpecQuote == InitQuote /\ [][NextArchive]_vars

\* a source line as the claim says it is archived: a line of k >= 0 `>'
\* and `From ' gets one more `>'; in the alternate mode a line that starts
\* with `From ' gets a leading space
QuotedLine(l, thunderbird) ==
  LET k == RunOf(l, ">")
      from == Len(l) > k /\ l[k + 1] = "F"
  IN IF thunderbird THEN (IF from /\ k = 0 THEN <<SP>> \o l ELSE l)
     ELSE (IF from THEN <<">">> \o l ELSE l)

\* the lines of the text of the message download_messages archived last
SourceLines ==
  SplitLF(Replace1(Strip(mailbox[Folder][new_messages[ri - 1].num].text),
                   CR, <<>>))

\* the tail of the archive of the folder, of the length of block
ArchiveTail(block) ==
  LET f == files[FileName]
  IN IF Len(f) < Len(block) THEN <<>>
     ELSE SubSeq(f, Len(f) - Len(block) + 1, Len(f))

\* C13: the text download_messages appends is the source text with every
\* line quoted, the first line included: no archived line of the message
\* starts with an unquoted `From ', so the archive reads back as one message
\* for each message appended.
C13_EveryFromLineQuoted ==
  (pc = "download" /\ ri > 1) =>
    LET quoted == [i \in 1..Len(SourceLines) |->
                     QuotedLine(SourceLines[i], config.thunderbird)]
        block == BlockHead(new_messages[ri - 1].id)
                   \o JoinWith(quoted, <<LF>>) \o <<LF, LF>>
    IN /\ ArchiveTail(block) = block
       /\ Len(MboxMessages(files[FileName])) = ri - 1

\* ------------- one folder, archived, with identifiers of either origin

MaxHeaded == 2

\* a message that was archived with a synthesised identifier and put back
\* on a server: its own Message-Id header carries the UUID
TextRestored ==
  HeaderM(<<"<", "U", ".", "h", ">">>) \o HeaderH(<<"x">>) \o Body(<<"t">>)

HeadMsgs ==
  {Msg(t, FALSE) : t \in {TextA, TextNone, TextMalformed, TextRestored}}

InitHead ==
  AtLoop({BaseConfig, [BaseConfig EXCEPT !.overwrite = TRUE],
          [BaseConfig EXCEPT !.thunderbird = TRUE, !.icloud = TRUE]},
         {<<RowA>>}, SeqsUpTo(HeadMsgs, MaxHeaded), {})

SpecHead == InitHead /\ [][NextArchive]_vars

\* the message download_messages archived last
LastArchived == new_messages[ri - 1]
LastText == mailbox[Folder][LastArchived.num].text

\* scan_folder synthesised the identifier of the message archived last
LastSynthesised == FolderMsgId(HeaderFieldsOf(LastText, "M")) = NoMatch

\* the block of the message archived last, with or without the line
BlockWith(line) ==
  EnvelopeLine
    \o (IF line THEN <<"M", ":", SP>> \o LastArchived.id \o <<LF>> ELSE <<>>)
    \o ArchivedText(LastText, config.thunderbird) \o <<LF, LF>>

\* the archive ends with the block and holds nothing else of the message
EndsWith(block) ==
  /\ ArchiveTail(block) = block
  /\ ri = 2 => files[FileName] = block

\* C14 as stated: the Message-Id line follows the envelope line exactly
\* when the identifier of the message was synthesised.
C14_IdLineIffSynthesised ==
  (pc = "download" /\ ri > 1) => EndsWith(BlockWith(LastSynthesised))

\* C14 as amended: the Message-Id line follows the envelope line exactly
\* when the identifier carries the UUID, as every synthesised identifier
\* does and a genuine one can.
C14_IdLineIffToken ==
  (pc = "download" /\ ri > 1) =>
    /\ EndsWith(BlockWith(\E i \in 1..Len(LastArchived.id) : LastArchived.id[i] = "U"))
    /\ LastSynthesised => EndsWith(BlockWith(TRUE))

\* a message without Message-Id was archived after one with a genuine one
C14_Witness ==
  /\ pc = "download"
  /\ ri = 3
  /\ LastSynthesised
  /\ LastText = TextNone
  /\ new_messages[1].id = <<"a">>
  /\ files[FileName] =
       EnvelopeLine \o ArchivedText(TextA, FALSE) \o <<LF, LF>> \o BlockWith(TRUE)

\* ------------------------------------ the listing, with INBOX anywhere

\* () "/" "name"
Row(name) ==
  <<"(", ")", SP>> \o Quoted(<<"/">>) \o <<SP>> \o Quoted(name)

\* INBOX, INBOX/b, a/INBOX, INBOX/INBOX, INBOXx, b/a
ListedNames ==
  {<<"INBOX">>, NameB, <<"a", "/", "INBOX">>, <<"INBOX", "/", "INBOX">>,
   <<"INBOX", "x">>, <<"b", "/", "a">>}

NameListings ==
  {l \in SeqsUpTo({Row(n) : n \in ListedNames}, MaxFolders) :
     l # <<>> /\ Distinct(l)}

InitNames ==
  Start({BaseConfig, [BaseConfig EXCEPT !.thunderbird = TRUE]}, NameListings,
        {<<>>}, {}, {"up"})

NextNames ==
  \/ CheckFilters
  \/ ConnectAndLogin
  \/ GetNames
  \/ CommandRaises

SpecNames == InitNames /\ [][NextNames]_vars

\* the file name the claim gives a folder: the segments between the
\* delimiters, a first segment INBOX read as Inbox in the hierarchical
\* mode, joined with .sbd/; in the flat mode joined with . and .mbox added
ClaimedFileName(foldername, delim, thunderbird) ==
  LET segs == Split(foldername, delim)
      shown == [i \in 1..Len(segs) |->
                  IF i = 1 /\ segs[i] = <<"INBOX">> THEN <<"Inbox">> ELSE segs[i]]
  IN IF thunderbird THEN JoinWith(shown, <<".sbd/">>)
     ELSE JoinWith(segs, <<".">>) \o <<".mbox">>

\* C15: get_names rewrites only a leading segment INBOX, and only in the
\* hierarchical mode.
C15_OnlyLeadingInbox ==
  (ev.cmd = "list" /\ pc = "loop") =>
    /\ Len(names) = Len(rows)
    /\ \A i \in 1..Len(names) :
         /\ names[i].folder = parse_list(rows[i]).name
         /\ names[i].file =
              ClaimedFileName(names[i].folder, parse_list(rows[i]).delim,
                              config.thunderbird)

\* ----------------------------------- one folder, relayed by two runs

MaxRelayed == 2

RelayMsgs ==
  {Msg(TextA, FALSE), Msg(TextB, FALSE), Msg(TextNone, FALSE), Msg(TextB, TRUE)}

InitRuns ==
  AtLoop({BaseConfig}, {<<RowA>>}, SeqsUpTo(RelayMsgs, MaxRelayed),
         {ArchiveOf(TextA)})

\* The run is over for the folder: resend_messages has returned, or a
\* failed assertion or a connection error has ended the run in it.  The
\* next run comes to the same folder (lines 799-808), with the server as
\* the first run left it.
RunAgain ==
  /\ round = 1
  /\ \/ pc = "loop" /\ ev.cmd = "return"
     \/ pc = "exit" /\ ev.stage \in {"sink", "resend"}
  /\ first_run' = [new |-> new_messages, log |-> storeLog,
                   box |-> mailbox[names[1].folder]]
  /\ round' = 2
  /\ pc' = "select"
  /\ fi' = 1
  /\ exitcode' = -1
  /\ failure' = "none"
  /\ msg_numbers' = <<>>
  /\ mi' = 1
  /\ fol_messages' = <<>>
  /\ fil_messages' = <<>>
  /\ new_messages' = <<>>
  /\ ev' = NoEvent
  /\ UNCHANGED <<inputs, mailbox, files, names, sinkv, scanned, first_scan>>

NextRuns ==
  \/ EnterFolder
  \/ Select
  \/ Search
  \/ ScanMessage
  \/ ScanFileAndReconcile
  \/ ResendEnter
  \/ ResendMessage
  \/ ResendReturn
  \/ CommandRaises
  \/ RunAgain

SpecRuns == InitRuns /\ [][NextRuns]_vars

\* the first run delivered message m to the relay
Delivered(m) ==
  \E j \in 1..Len(first_run.log) :
    first_run.log[j] = [num |-> m.num, cmd |-> "+FLAGS"]

\* message m was flagged \Seen when the first run ended
FlaggedSeen(m) == first_run.box[m.num].seen

\* C16: a message of the first run's new messages is among the second
\* run's exactly if the first run did not both deliver it and leave it
\* flagged as seen.
C16_RetriedIffNotAcknowledged ==
  (round = 2 /\ pc = "sink") =>
    \A m \in Range(first_run.new) :
      m \in Range(new_messages) <=> ~(Delivered(m) /\ FlaggedSeen(m))

\* C17: no step of scan_folder changes the \Seen flag of a message of the
\* folder, with or without a Message-Id header.
C17_ScanKeepsFlags ==
  [][(pc \in {"select", "search", "fetch"}) =>
       \A n \in 1..Len(mailbox[Folder]) :
         mailbox'[Folder][n].seen = mailbox[Folder][n].seen]_vars

\* the complete block of new message m of the folder: envelope line, the
\* Message-Id line of a synthesised identifier, the text, two line feeds
CompleteBlock(m) ==
  BlockHead(m.id)
    \o ArchivedText(mailbox[names[1].folder][m.num].text, config.thunderbird)
    \o <<LF, LF>>

\* download_messages has stopped: it has returned, or the failed assertion
\* of line 187 has ended it
DownloadStopped ==
  \/ pc = "loop" /\ ev.cmd = "return"
  \/ pc = "exit" /\ ev.stage = "sink"

\* C18: when download_messages stops, what it appended to the archive is a
\* sequence of complete blocks, one for each message it got to.
C18_OnlyCompleteBlocks ==
  DownloadStopped =>
    \E before \in {<<>>, ArchiveOf(TextA)} :
      \E k \in 0..Len(new_messages) :
        files[names[1].file] =
          before \o Concat([i \in 1..k |-> CompleteBlock(new_messages[i])])

====
